---- MODULE Spec2Model ----
(***************************************************************************)
(* A model of the training orchestration (train.py) and of the fusion      *)
(* architectures (models.py) of the Transformer-fusion repository.         *)
(*                                                                         *)
(* Four specifications share the variables of this module:                 *)
(*   Spec         main(): epoch loop, train / train_sam, val, checkpoints, *)
(*                test evaluation, with an external interrupt              *)
(*   SpecVal      val(): accumulation of predictions and labels            *)
(*   SpecPool     FeatureFusion.forward / TransformerFusion.forward        *)
(*   SpecAblation AblationModel.__init__ / AblationModel.forward           *)
(* Each specification keeps the variables of the others at their idle      *)
(* values.                                                                 *)
(***************************************************************************)
EXTENDS Integers, Sequences, FiniteSets, TLC

\* ------------------------------------------------------------------------
\* Bounds of the model
\* ------------------------------------------------------------------------
\* largest value of --epoch explored
MaxEpochs == 3
\* len(trainldr): batches per training epoch
NumBatches == 2
\* validation metrics (F1) are drawn from 0..MaxMetric, 0 standing for 0.0
MaxMetric == 1

\* Python's None / an unbound name, and a bound value
None == <<>>
Some(x) == <<x>>

\* the values the validation metric (f1, train.py:91) may take
Metrics == 0 .. MaxMetric
\* the (normalised) gradient directions a backward pass may produce
Grads == {-1, 1}
\* positions of main() at which the process has ended
Ended == {"done", "crashed"}

VARIABLES
    pc, args_epoch, args_sam, epoch, batch_idx,
    params, grad, grad_at, old_p, n_first, opt_steps,
    val_metrics, validated,
    best_performance, epoch_from_last_improvement, best_model,
    best_ckpt, cur_ckpt, df_val_metrics, trained,
    test_runs, test_model, interrupted

\* val()
VARIABLES v_pc, v_batch, v_data, v_pos, all_y, all_labels

\* FeatureFusion.forward / TransformerFusion.forward
VARIABLES p_audio, p_video, p_mask, p_out, p_out_zeroed, p_out_tf

\* AblationModel
VARIABLES ab_pc, config_num, pre_norm, enable_self_attention,
    enable_cross_attention, enable_fused_attention, mask_appnd,
    ab_a, ab_v, ab_m, ab_f, ab_out,
    cls_token, ab_mask, ab_grads, ab_steps

mainVars == <<pc, args_epoch, args_sam, epoch, batch_idx,
    params, grad, grad_at, old_p, n_first, opt_steps,
    val_metrics, validated,
    best_performance, epoch_from_last_improvement, best_model,
    best_ckpt, cur_ckpt, df_val_metrics, trained,
    test_runs, test_model, interrupted>>

valVars == <<v_pc, v_batch, v_data, v_pos, all_y, all_labels>>

poolVars == <<p_audio, p_video, p_mask, p_out, p_out_zeroed, p_out_tf>>

\* AblationModel: what a forward pass leaves alone besides the configuration
ablKept == <<cls_token, ab_mask, ab_grads, ab_steps>>

ablVars == <<ab_pc, config_num, pre_norm, enable_self_attention,
    enable_cross_attention, enable_fused_attention, mask_appnd,
    ab_a, ab_v, ab_m, ab_f, ab_out, ablKept>>

vars == <<mainVars, valVars, poolVars, ablVars>>

\* ------------------------------------------------------------------------
\* Optimizer steps
\* ------------------------------------------------------------------------
\* optimizer.step() of the base optimizer: one descent update along -g
OptimizerStep(p, g) == p - g

\* SAM.first_step: record the parameters, then move them along the gradient
FirstStep(p, g) == [params |-> p + g, old_p |-> Some(p)]

\* SAM.second_step: restore the recorded parameters, then the base update
\* with the gradient taken at the perturbed point
SecondStep(old, g) == [params |-> OptimizerStep(old[1], g), old_p |-> None]

\* position after the optimizer update that ends batch b of train()
AfterTrainBatch(b) == IF b + 1 < NumBatches THEN "train_fb" ELSE "val"

\* the straight-line order of one batch of train_sam (train.py:50-59)
SamSkipsRestore(p) ==
    CASE p = "sam_fb1" -> "sam_first"
      [] p = "sam_first" -> "sam_fb2"
      [] p = "sam_fb2" -> "sam_batch_end"
      [] OTHER -> "sam_batch_end"
SamOrder(p) ==
    CASE p = "sam_fb1" -> "sam_first"
      [] p = "sam_first" -> "sam_fb2"
      [] p = "sam_fb2" -> "sam_second"
      [] OTHER -> "sam_batch_end"

\* position after statement p of batch b of train_sam()
AfterSam(p, b) ==
    IF SamOrder(p) = "sam_batch_end"
    THEN (IF b + 1 < NumBatches THEN "sam_fb1" ELSE "val")
    ELSE SamOrder(p)

\* ------------------------------------------------------------------------
\* main(): state after construction (train.py:111-153)
\* ------------------------------------------------------------------------
MainIdle ==
    /\ pc = "off" /\ args_epoch = 0 /\ args_sam = FALSE /\ epoch = 0
    /\ batch_idx = 0 /\ params = 0 /\ grad = None /\ grad_at = None
    /\ old_p = None /\ n_first = 0 /\ opt_steps = 0 /\ val_metrics = 0
    /\ validated = None /\ best_performance = 0
    /\ epoch_from_last_improvement = 0 /\ best_model = None
    /\ best_ckpt = None /\ cur_ckpt = None /\ df_val_metrics = <<>>
    /\ trained = <<>> /\ test_runs = 0 /\ test_model = None
    /\ interrupted = FALSE

MainInit ==
    /\ pc = "loop"
    /\ args_epoch \in 0 .. MaxEpochs
    /\ args_sam \in BOOLEAN
    /\ epoch = 0 /\ batch_idx = 0
    /\ params = 0 /\ grad = None /\ grad_at = None
    /\ old_p = None /\ n_first = 0 /\ opt_steps = 0
    /\ val_metrics = 0 /\ validated = None
    /\ best_performance = 0
    /\ epoch_from_last_improvement = 0
    /\ best_model = None
    /\ best_ckpt = None /\ cur_ckpt = None
    /\ df_val_metrics = <<>> /\ trained = <<>>
    /\ test_runs = 0 /\ test_model = None
    /\ interrupted = FALSE

Running == ~interrupted /\ pc \notin Ended

\* for epoch in range(args.epoch): enter the next epoch or leave the loop
LoopHead ==
    /\ UNCHANGED <<valVars, poolVars, ablVars>>
    /\ Running /\ pc = "loop"
    /\ IF epoch < args_epoch
       THEN /\ pc' = IF args_sam THEN "sam_fb1" ELSE "train_fb"
            /\ batch_idx' = 0
       ELSE /\ pc' = "test"
            /\ UNCHANGED batch_idx
    /\ UNCHANGED <<args_epoch, args_sam, epoch, params, grad, grad_at, old_p,
                   n_first, opt_steps, val_metrics, validated,
                   best_performance, epoch_from_last_improvement, best_model,
                   best_ckpt, cur_ckpt, df_val_metrics, trained, test_runs,
                   test_model, interrupted>>

\* train(): zero_grad, forward, loss, backward of one batch
TrainBackward ==
    /\ UNCHANGED <<valVars, poolVars, ablVars>>
    /\ Running /\ pc = "train_fb"
    /\ \E g \in Grads :
          /\ grad' = Some(g)
          /\ grad_at' = Some(params)
    /\ pc' = "train_step"
    /\ UNCHANGED <<args_epoch, args_sam, epoch, batch_idx, params, old_p,
                   n_first, opt_steps, val_metrics, validated,
                   best_performance, epoch_from_last_improvement, best_model,
                   best_ckpt, cur_ckpt, df_val_metrics, trained, test_runs,
                   test_model, interrupted>>

\* train(): optimizer.step() of one batch; the last batch returns to main()
TrainStep ==
    /\ UNCHANGED <<valVars, poolVars, ablVars>>
    /\ Running /\ pc = "train_step"
    /\ params' = OptimizerStep(params, grad[1])
    /\ opt_steps' = opt_steps + 1
    /\ batch_idx' = batch_idx + 1
    /\ pc' = AfterTrainBatch(batch_idx)
    /\ trained' = IF pc' = "val" THEN Append(trained, params') ELSE trained
    /\ UNCHANGED <<args_epoch, args_sam, epoch, grad, grad_at, old_p, n_first,
                   val_metrics, validated, best_performance,
                   epoch_from_last_improvement, best_model, best_ckpt,
                   cur_ckpt, df_val_metrics, test_runs, test_model,
                   interrupted>>

\* train_sam(): zero_grad and the first forward / backward pass
SamBackward1 ==
    /\ UNCHANGED <<valVars, poolVars, ablVars>>
    /\ Running /\ pc = "sam_fb1"
    /\ \E g \in Grads :
          /\ grad' = Some(g)
          /\ grad_at' = Some(params)
    /\ pc' = AfterSam(pc, batch_idx)
    /\ UNCHANGED <<args_epoch, args_sam, epoch, batch_idx, params, old_p,
                   n_first, opt_steps, val_metrics, validated,
                   best_performance, epoch_from_last_improvement, best_model,
                   best_ckpt, cur_ckpt, df_val_metrics, trained, test_runs,
                   test_model, interrupted>>

\* train_sam(): optimizer.first_step(zero_grad=True)
SamFirstStep ==
    /\ UNCHANGED <<valVars, poolVars, ablVars>>
    /\ Running /\ pc = "sam_first"
    /\ params' = FirstStep(params, grad[1]).params
    /\ old_p' = FirstStep(params, grad[1]).old_p
    /\ grad' = None
    /\ n_first' = n_first + 1
    /\ pc' = AfterSam(pc, batch_idx)
    /\ UNCHANGED <<args_epoch, args_sam, epoch, batch_idx, grad_at, opt_steps,
                   val_metrics, validated, best_performance,
                   epoch_from_last_improvement, best_model, best_ckpt,
                   cur_ckpt, df_val_metrics, trained, test_runs, test_model,
                   interrupted>>

\* the end of one batch of train_sam(): next batch, or return to main()
SamBatchEnd(p) ==
    /\ batch_idx' = IF SamOrder(p) = "sam_batch_end"
                    THEN batch_idx + 1 ELSE batch_idx
    /\ pc' = AfterSam(p, batch_idx)
    /\ trained' = IF pc' = "val" THEN Append(trained, params') ELSE trained

\* train_sam(): the second forward / backward pass
SamBackward2 ==
    /\ UNCHANGED <<valVars, poolVars, ablVars>>
    /\ Running /\ pc = "sam_fb2"
    /\ \E g \in Grads :
          /\ grad' = Some(g)
          /\ grad_at' = Some(params)
    /\ UNCHANGED params
    /\ SamBatchEnd(pc)
    /\ UNCHANGED <<args_epoch, args_sam, epoch, old_p, n_first, opt_steps,
                   val_metrics, validated, best_performance,
                   epoch_from_last_improvement, best_model, best_ckpt,
                   cur_ckpt, df_val_metrics, test_runs, test_model,
                   interrupted>>

\* train_sam(): optimizer.second_step(zero_grad=True)
SamSecondStep ==
    /\ UNCHANGED <<valVars, poolVars, ablVars>>
    /\ Running /\ pc = "sam_second"
    /\ params' = SecondStep(old_p, grad[1]).params
    /\ old_p' = SecondStep(old_p, grad[1]).old_p
    /\ grad' = None
    /\ opt_steps' = opt_steps + 1
    /\ SamBatchEnd(pc)
    /\ UNCHANGED <<args_epoch, args_sam, epoch, grad_at, n_first,
                   val_metrics, validated, best_performance,
                   epoch_from_last_improvement, best_model, best_ckpt,
                   cur_ckpt, df_val_metrics, test_runs, test_model,
                   interrupted>>

\* ------------------------------------------------------------------------
\* main(): validation, checkpoint decision, checkpoints, test evaluation
\* ------------------------------------------------------------------------
\* the parameters of net after val(net, ...): val runs under torch.no_grad(),
\* never calls backward and never steps an optimizer
ValSteps(p) == p + 1
ValNet(p) == p

\* val(net, validldr, valid_criteria) as seen from main(): its metric
ValEpoch ==
    /\ UNCHANGED <<valVars, poolVars, ablVars>>
    /\ Running /\ pc = "val"
    /\ \E m \in Metrics : val_metrics' = m
    /\ validated' = Some(params)
    /\ params' = ValNet(params)
    /\ pc' = "decide"
    /\ UNCHANGED <<args_epoch, args_sam, epoch, batch_idx, grad, grad_at,
                   old_p, n_first, opt_steps, best_performance,
                   epoch_from_last_improvement, best_model, best_ckpt,
                   cur_ckpt, df_val_metrics, trained, test_runs, test_model,
                   interrupted>>

\* if val_metrics >= best_performance (train.py:184)
StrictlyBetter(m, best) == m > best
ShouldCheckpoint(m, best) == m >= best

\* the checkpoint written to best_val_perform.pth (train.py:185-190)
BestCheckpoint(e, m, p) == [epoch |-> e, val_metrics |-> m, state_dict |-> p]

\* the checkpoint written to cur_model.pth (train.py:198-201)
CurCheckpointNextEpoch(e, p) == [epoch |-> e + 1, state_dict |-> p]
CurCheckpoint(e, p) == [epoch |-> e, state_dict |-> p]

\* the checkpoint decision of one epoch (train.py:184-196)
Decide ==
    /\ UNCHANGED <<valVars, poolVars, ablVars>>
    /\ Running /\ pc = "decide"
    /\ IF ShouldCheckpoint(val_metrics, best_performance)
       THEN /\ best_ckpt' = Some(BestCheckpoint(epoch, val_metrics, params))
            /\ best_performance' = val_metrics
            /\ best_model' = Some(params)
            /\ epoch_from_last_improvement' = 0
       ELSE /\ epoch_from_last_improvement' = epoch_from_last_improvement + 1
            /\ UNCHANGED <<best_ckpt, best_performance, best_model>>
    /\ pc' = "save_cur"
    /\ UNCHANGED <<args_epoch, args_sam, epoch, batch_idx, params, grad,
                   grad_at, old_p, n_first, opt_steps, val_metrics, validated,
                   cur_ckpt, df_val_metrics, trained, test_runs, test_model,
                   interrupted>>

\* torch.save(checkpoint, .../cur_model.pth) (train.py:198-202)
SaveCur ==
    /\ UNCHANGED <<valVars, poolVars, ablVars>>
    /\ Running /\ pc = "save_cur"
    /\ cur_ckpt' = Some(CurCheckpoint(epoch, params))
    /\ pc' = "log"
    /\ UNCHANGED <<args_epoch, args_sam, epoch, batch_idx, params, grad,
                   grad_at, old_p, n_first, opt_steps, val_metrics, validated,
                   best_performance, epoch_from_last_improvement, best_model,
                   best_ckpt, df_val_metrics, trained, test_runs, test_model,
                   interrupted>>

\* df[...].append(...) and the end of the loop body (train.py:207-215)
Log ==
    /\ UNCHANGED <<valVars, poolVars, ablVars>>
    /\ Running /\ pc = "log"
    /\ df_val_metrics' = Append(df_val_metrics, val_metrics)
    /\ epoch' = epoch + 1
    /\ pc' = "loop"
    /\ UNCHANGED <<args_epoch, args_sam, batch_idx, params, grad, grad_at,
                   old_p, n_first, opt_steps, val_metrics, validated,
                   best_performance, epoch_from_last_improvement, best_model,
                   best_ckpt, cur_ckpt, trained, test_runs, test_model,
                   interrupted>>

\* the model handed to the test evaluation: best_model, not net
\* (train.py:222-223)
LiveNet(bm, net) == Some(net)
ModelUnderTest(bm, net) == bm

\* the test evaluation after the loop (train.py:218-243); best_model is an
\* unbound name (NameError) when no epoch has bound it
TestEval ==
    /\ UNCHANGED <<valVars, poolVars, ablVars>>
    /\ Running /\ pc = "test"
    /\ IF best_model = None
       THEN /\ pc' = "crashed"
            /\ UNCHANGED <<test_model, test_runs, val_metrics,
                           df_val_metrics>>
       ELSE /\ test_model' = ModelUnderTest(best_model, params)
            /\ test_runs' = test_runs + 1
            /\ \E m \in Metrics :
                  /\ val_metrics' = m
                  /\ df_val_metrics' = Append(df_val_metrics, m)
            /\ pc' = "done"
    /\ UNCHANGED <<args_epoch, args_sam, epoch, batch_idx, params, grad,
                   grad_at, old_p, n_first, opt_steps, validated,
                   best_performance, epoch_from_last_improvement, best_model,
                   best_ckpt, cur_ckpt, trained, interrupted>>

\* an external interrupt ends the run wherever it stands
Interrupt ==
    /\ UNCHANGED <<valVars, poolVars, ablVars>>
    /\ Running
    /\ interrupted' = TRUE
    /\ UNCHANGED <<pc, args_epoch, args_sam, epoch, batch_idx, params, grad,
                   grad_at, old_p, n_first, opt_steps, val_metrics, validated,
                   best_performance, epoch_from_last_improvement, best_model,
                   best_ckpt, cur_ckpt, df_val_metrics, trained, test_runs,
                   test_model>>

MainNext ==
    \/ LoopHead
    \/ TrainBackward
    \/ TrainStep
    \/ SamBackward1
    \/ SamFirstStep
    \/ SamBackward2
    \/ SamSecondStep
    \/ ValEpoch
    \/ Decide
    \/ SaveCur
    \/ Log
    \/ TestEval
    \/ Interrupt

\* ------------------------------------------------------------------------
\* Properties of main()
\* ------------------------------------------------------------------------
\* the validation metrics of the epochs whose checkpoint decision is taken
Decided ==
    SubSeq(df_val_metrics, 1, epoch)
        \o (IF pc \in {"save_cur", "log"} THEN <<val_metrics>> ELSE <<>>)

\* the maximum of 0.0 and the first n metrics of H
MaxSeen(H, n) ==
    LET S == {0} \cup {H[i] : i \in 1 .. n}
    IN  CHOOSE x \in S : \A y \in S : y <= x

\* the (1-based) epochs of H that met or beat the running best of their time
MetBest(H) == {i \in 1 .. Len(H) : H[i] >= MaxSeen(H, i - 1)}

\* the latest epoch of H that met or beat the running best (0 for no epoch)
LastMet(H) ==
    LET S == MetBest(H) \cup {0}
    IN  CHOOSE x \in S : \A y \in S : y <= x

\* no epoch's validation metric exceeds the initial best 0.0
NonImproving == \A i \in 1 .. epoch : df_val_metrics[i] <= 0

\* C1: at every point of the run best_performance is the maximum of 0.0 and
\* the metrics decided so far, epoch_from_last_improvement is the number of
\* epochs decided since the last one that met or beat (>=, ties included)
\* the running best, and the 'best' checkpoint holds that epoch's index,
\* metric and parameters; hence a decision that meets the best rewrites all
\* three and one that does not only adds 1 to the counter.
C1_CheckpointDecision ==
    LET H == Decided
        k == LastMet(H)
    IN  pc # "off" =>
          /\ best_performance = MaxSeen(H, Len(H))
          /\ epoch_from_last_improvement = Len(H) - k
          /\ best_ckpt = IF k = 0 THEN None
                         ELSE Some([epoch |-> k - 1, val_metrics |-> H[k],
                                    state_dict |-> trained[k]])

\* a tie in the second epoch rewrote the checkpoint, the third epoch fell
\* short and stepped the counter
C1_Witness ==
    /\ pc = "save_cur" /\ epoch = 2
    /\ df_val_metrics[1] = 1 /\ df_val_metrics[2] = 1 /\ val_metrics = 0
    /\ epoch_from_last_improvement = 1
    /\ best_ckpt # None /\ best_ckpt[1].epoch = 1

\* C2: best_model always holds the parameters as they were at the end of
\* training of the latest epoch that met or beat the running best, whatever
\* later epochs train; the test split is evaluated at most once, and once
\* main() is done exactly once, on those parameters.
C2_TestOnBestEpoch ==
    LET k == LastMet(Decided)
    IN  pc # "off" =>
          /\ best_model = IF k = 0 THEN None ELSE Some(trained[k])
          /\ test_runs = IF pc = "done" THEN 1 ELSE 0
          /\ pc = "done" => test_model = Some(trained[k])
          /\ pc # "done" => test_model = None

\* the best epoch is the second of three, and the third epoch's training
\* moved the live parameters away from the tested ones
C2_Witness ==
    /\ pc = "done" /\ args_epoch = 3
    /\ LastMet(Decided) = 2
    /\ test_model # Some(params)
    /\ test_runs = 1

\* C3 as stated: in a non-improving run of at least one epoch the best model
\* is bound when the test evaluation is reached and holds the first epoch's
\* parameters.
C3_FirstEpochIsBest ==
    (pc = "test" /\ args_epoch >= 1 /\ NonImproving)
        => (best_model # None /\ best_model = Some(trained[1]))

\* C3 as amended: in a non-improving run of at least one epoch the best model
\* is bound when the test evaluation is reached and holds the parameters of
\* the last epoch (every metric ties the running best 0.0, and ties favour
\* the newer model); with no epoch configured best_model is unbound there and
\* the run ends in an error, the only way it does.
C3_LastEpochIsBest ==
    /\ (pc = "test" /\ args_epoch >= 1 /\ NonImproving)
          => (best_model # None /\ best_model = Some(trained[args_epoch]))
    /\ (pc = "test" /\ args_epoch = 0) => best_model = None
    /\ pc = "crashed" => args_epoch = 0

\* three epochs of metric 0.0 reach the test evaluation, the last epoch's
\* parameters differing from the first's
C3_Witness ==
    /\ pc = "test" /\ args_epoch = 3 /\ NonImproving
    /\ trained[3] # trained[1]
    /\ best_model = Some(trained[3])

\* the batches whose training has completed, from the loop positions
BatchesDone ==
    Len(trained) * NumBatches
        + (IF pc \in {"train_fb", "train_step", "sam_fb1", "sam_first",
                      "sam_fb2", "sam_second"}
           THEN batch_idx ELSE 0)

\* the positions of train_sam() between first_step and second_step
Perturbed == {"sam_fb2", "sam_second"}

\* C4: in a SAM run first_step and second_step have each run once per
\* completed batch, first_step once more exactly between the two; the first
\* gradient is taken at the unperturbed parameters before first_step, the
\* second at the perturbed parameters after it and before second_step; and
\* a perturbation is applied only between first_step and second_step of one
\* batch, so no batch ends, and no next batch or validation begins, perturbed.
C4_SamOrder ==
    (pc # "off" /\ args_sam) =>
      /\ opt_steps = BatchesDone
      /\ n_first = BatchesDone + (IF pc \in Perturbed THEN 1 ELSE 0)
      /\ (old_p # None) <=> (pc \in Perturbed)
      /\ pc = "sam_first" => (grad # None /\ grad_at = Some(params))
      /\ pc = "sam_fb2" => (grad = None /\ params # old_p[1])
      /\ pc = "sam_second" =>
            (grad # None /\ grad_at = Some(params) /\ params # old_p[1])

\* the second batch of the second epoch stands perturbed before second_step
C4_Witness ==
    /\ args_sam /\ pc = "sam_second"
    /\ epoch = 1 /\ batch_idx = 1
    /\ old_p # None /\ n_first = opt_steps + 1

\* the epochs whose 'current' checkpoint write has run: an epoch is complete
\* once trained, validated and checkpointed (what follows only logs)
Completed == IF pc = "log" THEN epoch + 1 ELSE epoch

\* C9: the 'current' checkpoint is always the one of the last completed
\* epoch: that epoch's index and the parameters as they were after its
\* training, whether or not it improved and wherever the run is interrupted
\* (none before the first epoch completes); at the end of an iteration it is
\* the running epoch's, holding the live parameters.
C9_CurrentCheckpoint ==
    pc # "off" =>
      /\ cur_ckpt = IF Completed = 0 THEN None
                    ELSE Some([epoch |-> Completed - 1,
                               state_dict |-> trained[Completed]])
      /\ pc = "log" => cur_ckpt = Some([epoch |-> epoch,
                                         state_dict |-> params])

\* interrupted while training the third epoch, after an epoch that did not
\* improve: the checkpoint on disk is the second epoch's
C9_Witness ==
    /\ interrupted /\ pc \in {"train_step", "sam_second"}
    /\ epoch = 2 /\ epoch_from_last_improvement = 1
    /\ cur_ckpt # None /\ cur_ckpt[1].epoch = 1
    /\ cur_ckpt[1].state_dict # params

\* the positions of main() outside train() and train_sam()
OutsideTraining == {"loop", "val", "decide", "save_cur", "log", "test"}

\* C10: only the optimizer steps change the parameters: outside training
\* the parameters, the gradients, the SAM record and the optimizer's step
\* counts stay as they are, the checkpoint decision and the checkpoint
\* writes leave the validation metric alone, and every checkpoint and best
\* model written holds exactly the parameters validated in that epoch.
C10_OnlyOptimizerMutates ==
    [][ /\ params' # params
            => pc \in {"train_step", "sam_first", "sam_second"}
        /\ pc \in OutsideTraining
            => /\ params' = params /\ grad' = grad /\ old_p' = old_p
               /\ opt_steps' = opt_steps /\ n_first' = n_first
        /\ pc \in {"decide", "save_cur"} => val_metrics' = val_metrics
        /\ (best_ckpt' # best_ckpt \/ best_model' # best_model)
            => /\ pc = "decide"
               /\ best_ckpt'[1].state_dict = validated[1]
               /\ best_model' = validated
        /\ (pc = "save_cur" /\ pc' = "log")
            => cur_ckpt'[1].state_dict = validated[1]
      ]_vars

\* both checkpoints of the second epoch are written and hold the validated
\* parameters, which are still the live ones
C10_Witness ==
    /\ pc = "log" /\ epoch = 1
    /\ validated = Some(params)
    /\ cur_ckpt = Some(CurCheckpoint(epoch, params))
    /\ best_ckpt # None /\ best_ckpt[1].epoch = 1
    /\ best_ckpt[1].state_dict = params
    /\ trained[1] # params

\* ------------------------------------------------------------------------
\* val(net, validldr, criteria) (train.py:64-96)
\* ------------------------------------------------------------------------
\* largest validation set explored
MaxSamples == 3
\* largest --batch explored
MaxBatchSize == 2
\* all_y >= 0.5, the outputs of the net counted in tenths
Threshold == 5

\* the outputs of the net, in tenths, around the threshold
Scores == {Threshold - 1, Threshold, Threshold + 1}

\* a sample of the validation set: the net's output for it and its label
Samples == [y : Scores, label : {0, 1}]

\* the rows lo+1 .. hi of a batch, each value tagged with its sample
BatchY(data, lo, hi) ==
    [i \in 1 .. hi - lo |-> [id |-> lo + i, v |-> data[lo + i].y]]
BatchLabels(data, lo, hi) ==
    [i \in 1 .. hi - lo |-> [id |-> lo + i, v |-> data[lo + i].label]]

\* all_y after one batch (train.py:82-83, 86)
AccumulateYInFront(acc, y) == IF acc = None THEN Some(y) ELSE Some(y \o acc[1])
AccumulateY(acc, y) == IF acc = None THEN Some(y) ELSE Some(acc[1] \o y)

\* all_labels after one batch (train.py:82, 84, 87)
AccumulateLabels(acc, labels) ==
    IF acc = None THEN Some(labels) ELSE Some(acc[1] \o labels)

\* all_y = (all_y >= 0.5).long() (train.py:88-89)
Binarize(rows) ==
    [i \in 1 .. Len(rows) |->
        [id |-> rows[i].id, v |-> IF rows[i].v >= Threshold THEN 1 ELSE 0]]

ValIdle ==
    /\ v_pc = "off" /\ v_batch = 1 /\ v_data = <<>> /\ v_pos = 0
    /\ all_y = None /\ all_labels = None

\* the state at train.py:67-68, the loader over a validation set in order
\* (shuffle=False)
ValInit ==
    /\ v_pc = "loop"
    /\ v_batch \in 1 .. MaxBatchSize
    /\ \E n \in 0 .. MaxSamples : v_data \in [1 .. n -> Samples]
    /\ v_pos = 0
    /\ all_y = None /\ all_labels = None

\* one iteration of the batch loop (train.py:69-87)
ValBatch ==
    /\ UNCHANGED <<mainVars, poolVars, ablVars>>
    /\ v_pc = "loop" /\ v_pos < Len(v_data)
    /\ LET hi == IF v_pos + v_batch < Len(v_data)
                 THEN v_pos + v_batch ELSE Len(v_data)
       IN  /\ all_y' = AccumulateY(all_y, BatchY(v_data, v_pos, hi))
           /\ all_labels' =
                 AccumulateLabels(all_labels, BatchLabels(v_data, v_pos, hi))
           /\ v_pos' = hi
    /\ UNCHANGED <<v_pc, v_batch, v_data>>

\* after the loop (train.py:88-96): threshold and hand over to the metrics;
\* with no batch all_y is still None and None >= 0.5 raises
ValFinish ==
    /\ UNCHANGED <<mainVars, poolVars, ablVars>>
    /\ v_pc = "loop" /\ v_pos = Len(v_data)
    /\ IF all_y = None
       THEN /\ v_pc' = "crashed"
            /\ UNCHANGED all_y
       ELSE /\ v_pc' = "done"
            /\ all_y' = Some(Binarize(all_y[1]))
    /\ UNCHANGED <<v_batch, v_data, v_pos, all_labels>>

ValNext ==
    \/ ValBatch
    \/ ValFinish

\* C8: after any number of validation batches all_y and all_labels are
\* unset together or have the same length, the number of samples yielded;
\* their i-th entries both belong to the i-th sample the loader yielded and
\* hold its prediction and its label; what val() hands to the metrics is the
\* >= 0.5 threshold of each prediction, in that same order.
C8_PredictionsAlignWithLabels ==
    v_pc # "off" =>
      /\ (all_y = None) <=> (all_labels = None)
      /\ (all_y = None) <=> (v_pos = 0)
      /\ all_y # None =>
            /\ Len(all_y[1]) = v_pos /\ Len(all_labels[1]) = v_pos
            /\ \A i \in 1 .. v_pos :
                  /\ all_y[1][i].id = i
                  /\ all_labels[1][i].id = i
                  /\ all_labels[1][i].v = v_data[i].label
                  /\ all_y[1][i].v =
                        IF v_pc = "done"
                        THEN (IF v_data[i].y >= Threshold THEN 1 ELSE 0)
                        ELSE v_data[i].y

\* three samples in two batches, below, at and above the threshold
C8_Witness ==
    /\ v_pc = "done" /\ v_batch = 2 /\ Len(v_data) = 3
    /\ v_data[1].y = Threshold - 1 /\ v_data[2].y = Threshold
    /\ v_data[3].y = Threshold + 1
    /\ all_y[1][1].v = 0 /\ all_y[1][2].v = 1 /\ all_y[1][3].v = 1
    /\ all_labels[1][3].v = 0

\* ------------------------------------------------------------------------
\* FeatureFusion.forward and TransformerFusion.forward (models.py:40-65)
\* ------------------------------------------------------------------------
\* longest padded sequence explored
MaxT == 2
\* feature values are drawn from 0..MaxFeat
MaxFeat == 1

Feat == 0 .. MaxFeat

\* sequences of k feature values, and validity masks of length k
FeatSeqs(k) == [1 .. k -> Feat]
Masks(k) == [1 .. k -> {0, 1}]

\* x.sum(dim=1): the sum over every timestep of the padded sequence
RECURSIVE SumSeq(_)
SumSeq(x) == IF x = <<>> THEN 0 ELSE x[1] + SumSeq(Tail(x))

RECURSIVE Gcd(_, _)
Gcd(a, b) == IF b = 0 THEN a ELSE Gcd(b, a % b)

\* torch.div(x, n) on floats, for x >= 0 and n >= 0: an exact quotient in
\* lowest terms, and inf or nan for a zero divisor (no exception is raised)
TorchDiv(x, n) ==
    IF n = 0
    THEN (IF x = 0 THEN [kind |-> "nan", num |-> 0, den |-> 0]
                   ELSE [kind |-> "inf", num |-> 1, den |-> 0])
    ELSE [kind |-> "finite", num |-> x \div Gcd(x, n), den |-> n \div Gcd(x, n)]

\* self.fc(x).squeeze(-1): the classifier applied to the pooled vector
ShallowNN(x) == [fc |-> x]

\* FeatureFusion.forward(feature_audio, feature_video, mask) for one sample
FeatureFusionForward(a, v, m) ==
    LET divisor == SumSeq(m)
        fa == TorchDiv(SumSeq(a), divisor)
        fv == TorchDiv(SumSeq(v), divisor)
    IN  [divisor |-> divisor, audio |-> fa, video |-> fv,
         y |-> ShallowNN(<<fa, fv>>)]

\* TransformerFusion.forward after its two blocks (models.py:59-63), ba and
\* bv the outputs of self.audio and self.video
TransformerFusionForward(ba, bv, m) ==
    LET divisor == SumSeq(m)
        fa == TorchDiv(SumSeq(ba), divisor)
        fv == TorchDiv(SumSeq(bv), divisor)
    IN  [divisor |-> divisor, audio |-> fa, video |-> fv,
         y |-> ShallowNN(<<fa, fv>>)]

\* a copy of x with the values at invalid timesteps set to zero
ZeroInvalid(x, m) == [i \in 1 .. Len(x) |-> IF m[i] = 1 THEN x[i] ELSE 0]

PoolIdle ==
    /\ p_audio = <<>> /\ p_video = <<>> /\ p_mask = <<>>
    /\ p_out = None /\ p_out_zeroed = None /\ p_out_tf = None

\* one sample of a batch: two feature sequences and their shared mask
PoolInit ==
    /\ \E k \in 1 .. MaxT :
          /\ p_audio \in FeatSeqs(k)
          /\ p_video \in FeatSeqs(k)
          /\ p_mask \in Masks(k)
    /\ p_out = None /\ p_out_zeroed = None /\ p_out_tf = None

\* FeatureFusion.forward on the sample
FeatureFusionCall ==
    /\ UNCHANGED <<mainVars, valVars, ablVars>>
    /\ p_out = None
    /\ p_out' = Some(FeatureFusionForward(p_audio, p_video, p_mask))
    /\ UNCHANGED <<p_audio, p_video, p_mask, p_out_zeroed, p_out_tf>>

\* FeatureFusion.forward on the sample with its invalid timesteps zeroed
FeatureFusionCallZeroed ==
    /\ UNCHANGED <<mainVars, valVars, ablVars>>
    /\ p_out_zeroed = None
    /\ p_out_zeroed' =
          Some(FeatureFusionForward(ZeroInvalid(p_audio, p_mask),
                                    ZeroInvalid(p_video, p_mask), p_mask))
    /\ UNCHANGED <<p_audio, p_video, p_mask, p_out, p_out_tf>>

\* TransformerFusion.forward on the sample, whatever its blocks return
TransformerFusionCall ==
    /\ UNCHANGED <<mainVars, valVars, ablVars>>
    /\ p_out_tf = None
    /\ \E ba \in FeatSeqs(Len(p_audio)), bv \in FeatSeqs(Len(p_video)) :
          p_out_tf' = Some(TransformerFusionForward(ba, bv, p_mask))
    /\ UNCHANGED <<p_audio, p_video, p_mask, p_out, p_out_zeroed>>

PoolNext ==
    \/ FeatureFusionCall
    \/ FeatureFusionCallZeroed
    \/ TransformerFusionCall

\* the outputs computed so far
PoolOutputs == {o[1] : o \in {p_out, p_out_zeroed, p_out_tf} \ {None}}

\* C5: for every mask, an all-zero one included, the divisor of the masked
\* average of both fusions is at least 1, the valid count clamped, and both
\* pooled values are finite.
C5_DivisorClamped ==
    \A o \in PoolOutputs :
        /\ o.divisor >= 1
        /\ o.divisor >= SumSeq(p_mask)
        /\ o.audio.kind = "finite" /\ o.video.kind = "finite"

\* C6: for a mask with at least one valid timestep, FeatureFusion.forward
\* gives the same output for an input and for its copy with the invalid
\* timesteps zeroed.
C6_InvalidTimestepsIgnored ==
    (SumSeq(p_mask) >= 1 /\ p_out # None /\ p_out_zeroed # None)
        => p_out[1].y = p_out_zeroed[1].y

\* ------------------------------------------------------------------------
\* AblationModel (models.py:114-233)
\* ------------------------------------------------------------------------
\* A tensor is the term that computes it: the module or operation applied,
\* the tensors it is applied to and, for an attention, the mask it is given.
Tm(op, args, m) == [op |-> op, args |-> args, m |-> m]
Ap(op, args) == Tm(op, args, <<>>)
Leaf(op) == Tm(op, <<>>, <<>>)

\* self.norms[i]
NormNames ==
    <<"norms0", "norms1", "norms2", "norms3",
      "norms4", "norms5", "norms6", "norms7">>

\* AblationModel.maybe_normalize(i, x, pre)
MaybeNormalize(i, x, pre) ==
    IF pre_norm = pre THEN Ap(NormNames[i + 1], <<x>>) ELSE x

\* residual + drop(sublayer)
Residual(residual, drop, sub) == Ap("add", <<residual, Ap(drop, <<sub>>)>>)

\* the per-modality self-attention and feed-forward of one modality
\* (models.py:185-193 for audio, 195-203 for video)
SelfBlock(x, m, n1, n2, attn, ff, d1, d2) ==
    LET q == MaybeNormalize(n1, x, TRUE)
        x1 == Residual(x, d1, Tm(attn, <<q, q, q>>, m))
        x2 == MaybeNormalize(n1, x1, FALSE)
        h == MaybeNormalize(n2, x2, TRUE)
        x3 == Residual(x2, d2, Ap(ff, <<h>>))
    IN  MaybeNormalize(n2, x3, FALSE)

\* the cross-modal attention stage (models.py:206-213)
CrossBlockSymmetric(a, v, m) ==
    LET a1 == MaybeNormalize(4, a, TRUE)
        v1 == MaybeNormalize(5, v, TRUE)
        a2 == Residual(a, "drop1", Tm("audio_attn", <<a1, v1, v1>>, m))
        v2 == Residual(v, "drop2", Tm("video_attn", <<v1, a1, a1>>, m))
    IN  [a |-> MaybeNormalize(4, a2, FALSE), v |-> MaybeNormalize(5, v2, FALSE)]
CrossBlock(a, v, m) ==
    LET a1 == MaybeNormalize(4, a, TRUE)
        v1 == MaybeNormalize(5, v, TRUE)
        a2 == Residual(a, "drop1", Tm("audio_attn", <<a1, v1, v1>>, m))
        v2 == Residual(v, "drop2", Tm("video_attn", <<v1, a2, a2>>, m))
    IN  [a |-> MaybeNormalize(4, a2, FALSE), v |-> MaybeNormalize(5, v2, FALSE)]

\* the fused self-attention and feed-forward (models.py:221-228)
FusedBlock(f, m) ==
    LET q == MaybeNormalize(6, f, TRUE)
        f1 == Residual(f, "drop3", Tm("fused_attn", <<q, q, q>>, m))
        f2 == MaybeNormalize(6, f1, FALSE)
        h == MaybeNormalize(7, f2, TRUE)
        f3 == Residual(f2, "drop4", Ap("feed_forward", <<h>>))
    IN  MaybeNormalize(7, f3, FALSE)

\* m = torch.cat((mask_appnd, m), dim=1) for one sample (models.py:217-218)
FusedMaskAtEnd(appnd, m) == m \o <<appnd>>
FusedMask(appnd, m) == <<appnd>> \o m

\* optimizer steps of a training loop over the model explored
MaxSteps == 2

\* the gradient backward leaves on mask_appnd: the attention derives a
\* boolean mask from m, through which no gradient flows, so none
MaskAppndGrad == None

\* one parameter after optimizer.step(): a parameter without a gradient is
\* skipped
ApplyGrad(p, g) == IF g = None THEN p ELSE OptimizerStep(p, g[1])

AblIdle ==
    /\ ab_pc = "off" /\ config_num = 0 /\ pre_norm = FALSE
    /\ enable_self_attention = 0 /\ enable_cross_attention = 0
    /\ enable_fused_attention = 0 /\ mask_appnd = 1
    /\ ab_a = Leaf("a") /\ ab_v = Leaf("v") /\ ab_m = <<>>
    /\ ab_f = Leaf("unset") /\ ab_out = None
    /\ cls_token = 0 /\ ab_mask = <<>> /\ ab_grads = None /\ ab_steps = 0

\* AblationModel.__init__ (models.py:115-166) and the arguments of forward
AblInit ==
    /\ ab_pc = "project"
    /\ config_num \in 0 .. 7
    /\ pre_norm \in BOOLEAN
    /\ enable_self_attention = config_num % 2
    /\ enable_cross_attention = (config_num \div 2) % 2
    /\ enable_fused_attention = (config_num \div 4) % 2
    /\ mask_appnd = 1
    /\ ab_a = Leaf("a") /\ ab_v = Leaf("v")
    /\ \E k \in 1 .. MaxT : ab_m \in Masks(k)
    /\ ab_f = Leaf("unset") /\ ab_out = None
    /\ cls_token = 0 /\ ab_mask = ab_m /\ ab_grads = None /\ ab_steps = 0

\* forward: the projections (models.py:176-182)
AblProject ==
    /\ UNCHANGED <<mainVars, valVars, poolVars>>
    /\ ab_pc = "project"
    /\ ab_a' = Ap("audio_prj", <<ab_a>>)
    /\ ab_v' = Ap("video_prj", <<ab_v>>)
    /\ ab_pc' = "self"
    /\ UNCHANGED <<config_num, pre_norm, enable_self_attention,
                   enable_cross_attention, enable_fused_attention,
                   mask_appnd, ablKept, ab_m, ab_f, ab_out>>

\* forward: if self.enable_self_attention (models.py:184-203)
AblSelfStage ==
    /\ UNCHANGED <<mainVars, valVars, poolVars>>
    /\ ab_pc = "self"
    /\ IF enable_self_attention # 0
       THEN /\ ab_a' = SelfBlock(ab_a, ab_m, 0, 1, "aself_attn",
                                 "afeed_forward", "adrop1", "adrop2")
            /\ ab_v' = SelfBlock(ab_v, ab_m, 2, 3, "vself_attn",
                                 "vfeed_forward", "vdrop1", "vdrop2")
       ELSE UNCHANGED <<ab_a, ab_v>>
    /\ ab_pc' = "cross"
    /\ UNCHANGED <<config_num, pre_norm, enable_self_attention,
                   enable_cross_attention, enable_fused_attention,
                   mask_appnd, ablKept, ab_m, ab_f, ab_out>>

\* forward: if self.enable_cross_attention (models.py:205-213)
AblCrossStage ==
    /\ UNCHANGED <<mainVars, valVars, poolVars>>
    /\ ab_pc = "cross"
    /\ IF enable_cross_attention # 0
       THEN /\ ab_a' = CrossBlock(ab_a, ab_v, ab_m).a
            /\ ab_v' = CrossBlock(ab_a, ab_v, ab_m).v
       ELSE UNCHANGED <<ab_a, ab_v>>
    /\ ab_pc' = "concat"
    /\ UNCHANGED <<config_num, pre_norm, enable_self_attention,
                   enable_cross_attention, enable_fused_attention,
                   mask_appnd, ablKept, ab_m, ab_f, ab_out>>

\* forward: concatenation, classification token and its mask entry
\* (models.py:215-219)
AblConcat ==
    /\ UNCHANGED <<mainVars, valVars, poolVars>>
    /\ ab_pc = "concat"
    /\ ab_f' = Ap("cat_time",
                  <<Leaf("cls_token"), Ap("cat_feature", <<ab_a, ab_v>>)>>)
    /\ ab_m' = FusedMask(mask_appnd, ab_m)
    /\ ab_pc' = "fused"
    /\ UNCHANGED <<config_num, pre_norm, enable_self_attention,
                   enable_cross_attention, enable_fused_attention,
                   mask_appnd, ablKept, ab_a, ab_v, ab_out>>

\* forward: the fused attention, under no condition (models.py:221-228)
AblFusedStage ==
    /\ UNCHANGED <<mainVars, valVars, poolVars>>
    /\ ab_pc = "fused"
    /\ ab_f' = FusedBlock(ab_f, ab_m)
    /\ ab_pc' = "head"
    /\ UNCHANGED <<config_num, pre_norm, enable_self_attention,
                   enable_cross_attention, enable_fused_attention,
                   mask_appnd, ablKept, ab_a, ab_v, ab_m, ab_out>>

\* forward: out = self.head(f[:, 0]) (models.py:230-233)
AblHead ==
    /\ UNCHANGED <<mainVars, valVars, poolVars>>
    /\ ab_pc = "head"
    /\ ab_out' = Some(Ap("head", <<Ap("select0", <<ab_f>>)>>))
    /\ ab_pc' = "done"
    /\ UNCHANGED <<config_num, pre_norm, enable_self_attention,
                   enable_cross_attention, enable_fused_attention,
                   mask_appnd, ablKept, ab_a, ab_v, ab_m, ab_f>>

\* loss.backward() after a forward pass: gradients of the registered
\* parameters cls_token and mask_appnd (the other parameters stay symbolic)
AblBackward ==
    /\ UNCHANGED <<mainVars, valVars, poolVars>>
    /\ ab_pc = "done" /\ ab_steps < MaxSteps
    /\ \E g \in Grads :
          ab_grads' = Some([cls_token |-> Some(g),
                            mask_appnd |-> MaskAppndGrad])
    /\ ab_pc' = "step"
    /\ UNCHANGED <<config_num, pre_norm, enable_self_attention,
                   enable_cross_attention, enable_fused_attention,
                   mask_appnd, cls_token, ab_mask, ab_steps,
                   ab_a, ab_v, ab_m, ab_f, ab_out>>

\* optimizer.step() over model.parameters(), then the next call of forward
\* with the next batch's mask
AblOptimizerStep ==
    /\ UNCHANGED <<mainVars, valVars, poolVars>>
    /\ ab_pc = "step"
    /\ cls_token' = ApplyGrad(cls_token, ab_grads[1].cls_token)
    /\ mask_appnd' = ApplyGrad(mask_appnd, ab_grads[1].mask_appnd)
    /\ ab_grads' = None
    /\ ab_steps' = ab_steps + 1
    /\ \E k \in 1 .. MaxT : ab_mask' \in Masks(k)
    /\ ab_m' = ab_mask'
    /\ ab_a' = Leaf("a") /\ ab_v' = Leaf("v")
    /\ ab_f' = Leaf("unset") /\ ab_out' = None
    /\ ab_pc' = "project"
    /\ UNCHANGED <<config_num, pre_norm, enable_self_attention,
                   enable_cross_attention, enable_fused_attention>>

AblNext ==
    \/ AblProject
    \/ AblSelfStage
    \/ AblCrossStage
    \/ AblConcat
    \/ AblFusedStage
    \/ AblHead
    \/ AblBackward
    \/ AblOptimizerStep

\* whether the computation of tensor t applies the module named op
RECURSIVE Uses(_, _)
Uses(t, op) ==
    \/ t.op = op
    \/ \E i \in 1 .. Len(t.args) : Uses(t.args[i], op)

\* the subterms of tensor t computed by the module named op
RECURSIVE TermsOf(_, _)
TermsOf(t, op) ==
    (IF t.op = op THEN {t} ELSE {})
        \cup UNION {TermsOf(t.args[i], op) : i \in 1 .. Len(t.args)}

\* the masks handed to the module named op in the computation of t
MasksOf(t, op) == {x.m : x \in TermsOf(t, op)}

C12_CrossStageSequential ==
    [][ (ab_pc = "cross" /\ ab_pc' = "concat" /\ enable_cross_attention # 0)
          => LET vRead == IF pre_norm THEN Ap("norms5", <<ab_v>>) ELSE ab_v
                 aQuery == IF pre_norm THEN Ap("norms4", <<ab_a>>) ELSE ab_a
                 audioAttn == Tm("audio_attn", <<aQuery, vRead, vRead>>, ab_m)
                 aUpdated == Ap("add", <<ab_a, Ap("drop1", <<audioAttn>>)>>)
                 videoAttn ==
                     Tm("video_attn", <<vRead, aUpdated, aUpdated>>, ab_m)
             IN  /\ TermsOf(ab_a', "audio_attn") = {audioAttn}
                 /\ TermsOf(ab_v', "video_attn") = {videoAttn}
                 /\ TermsOf(ab_v', "audio_attn") = {audioAttn}
                 /\ ~Uses(ab_a', "video_attn")
                 /\ ~Uses(vRead, "audio_attn") /\ ~Uses(vRead, "video_attn")
      ]_vars

\* the cross stage has run under pre-norm after the self stage: the video
\* output goes through the audio-side attention, not the other way round
C12_Witness ==
    /\ ab_pc = "concat" /\ pre_norm
    /\ enable_cross_attention = 1 /\ enable_self_attention = 1
    /\ Uses(ab_v, "audio_attn") /\ ~Uses(ab_a, "video_attn")
    /\ \A x \in TermsOf(ab_v, "video_attn") :
          x.args[2].op = "add" /\ x.args[1].op = "norms5"

\* C7: for every config_num in 0..7 the output of forward goes through the
\* per-modality self-attention iff bit 0 is set, through the cross-modal
\* attention iff bit 1 is set and through the fused self-attention iff bit 2
\* is set; a stage whose bit is clear leaves no trace in the output.
C7_BitsGateStages ==
    ab_pc = "done" =>
      /\ Uses(ab_out[1], "aself_attn") <=> (config_num % 2 = 1)
      /\ Uses(ab_out[1], "vself_attn") <=> (config_num % 2 = 1)
      /\ Uses(ab_out[1], "audio_attn") <=> ((config_num \div 2) % 2 = 1)
      /\ Uses(ab_out[1], "video_attn") <=> ((config_num \div 2) % 2 = 1)
      /\ Uses(ab_out[1], "fused_attn") <=> ((config_num \div 4) % 2 = 1)

\* ------------------------------------------------------------------------
\* Specifications
\* ------------------------------------------------------------------------
Init == MainInit /\ ValIdle /\ PoolIdle /\ AblIdle

Next == MainNext

\* main()
Spec == Init /\ [][Next]_vars

\* val()
ValSpecInit == ValInit /\ MainIdle /\ PoolIdle /\ AblIdle

SpecVal == ValSpecInit /\ [][ValNext]_vars

\* the pooling fusions
PoolSpecInit == PoolInit /\ MainIdle /\ ValIdle /\ AblIdle

SpecPool == PoolSpecInit /\ [][PoolNext]_vars

\* AblationModel
AblSpecInit == AblInit /\ MainIdle /\ ValIdle /\ PoolIdle

SpecAblation == AblSpecInit /\ [][AblNext]_vars

====
